---- MODULE Spec2Model ----
(***************************************************************************)
(* Model of the weatherbot sidecar pipeline: app/stt_helpers.py            *)
(* (process_trace, background_process_trace), app/chatbot.py               *)
(* (generate_travel_response), app/weather_agent.py (travel_weather_agent) *)
(* and the polling endpoints of app/main.py, for one trace_id.             *)
(*                                                                         *)
(* Python dicts are functions from key strings to values; None is the      *)
(* string "null".  Every external service (recognizer, translator, NER,    *)
(* geocoding, weather, LLM, the file system for the transcript file) is an *)
(* input chosen with \E at the step that calls it.                         *)
(*                                                                         *)
(* Operations on the trace run one after the other (a background run or a  *)
(* manual POST /api/stt/{trace_id}/process), while the polling endpoints   *)
(* may read the sidecar between any two steps.  The audio file may be      *)
(* missing for either entry point.  Writes to the sidecar file itself are  *)
(* taken to succeed; each one is open (truncate), an optional partial      *)
(* flush, and close.  The clock is read lazily: it may have advanced by    *)
(* any amount at each read.                                                *)
(*                                                                         *)
(* Five specifications share the variables:                                *)
(*   Spec      runs of the pipeline and the stt / agent polling endpoints  *)
(*   SpecResp  background runs and GET /api/stt/{trace_id}/response        *)
(*   SpecText  POST /api/text, which calls the Travel Agent on its query   *)
(*   SpecApi   POST /api/voice, the task it schedules, and a process       *)
(*             request running beside that task                            *)
(*   SpecLive  POST /api/voice and its task, under weak fairness of the    *)
(*             task's steps                                                *)
(***************************************************************************)
EXTENDS Integers, Sequences, FiniteSets, TLC

VARIABLES
    wav,        \* uploads/<trace_id>.wav exists
    apiKey,     \* OPENAI_API_KEY or GOOGLE_API_KEY is set in the environment
    fstate,     \* sidecar file on disk: "absent" | "empty" | "partial" | "complete"
    sidecar,    \* the JSON document in the sidecar file when fstate = "complete"
    txt,        \* content of uploads/<trace_id>.txt, or "absent"
    now,        \* int(time.time())
    kind,       \* the running operation: "none" | "bg" | "manual"
    pc,         \* its position
    wphase,     \* position inside a `with open(..., "w")` block: "none" | "opened" | "flushed"
    result,     \* local `result` of process_trace / background_process_trace
    english_text, \* local `english_text` of process_trace
    text_for_agent, \* local `text_for_agent` of process_trace
    exc,        \* the exception in flight, "" when none
    err,        \* local `err` of background_process_trace's outer handler
    runs,       \* number of operations started so far
    written,    \* [site, doc] of every sidecar write this run has completed, in order
    log,        \* stages this run has executed, in order: <<stage, outcome>>
    before,     \* <<fstate, sidecar>> when this run started
    reply,      \* the HTTP reply the latest step produced, NoReply when it produced none
    raw,        \* uploads/rec-<trace_id>.<suffix>, the raw upload, exists
    up_pc,      \* position of the upload_voice request that creates the trace
    tasks,      \* background tasks upload_voice has added and that have not started
    m_pc,       \* position of a manual process request made while another run is going on
    m_result,   \* its local `result`
    calls,      \* the service calls the latest travel_weather_agent call made, in order
    agent_out,  \* local `agent_output` of process_text_query: what that call returned
    llm_calls   \* how many times process_text_query called call_model_generate

vars == <<wav, apiKey, fstate, sidecar, txt, now, kind, pc, wphase, result,
          english_text, text_for_agent, exc, err, runs, written, log, before, reply,
          raw, up_pc, tasks, m_pc, m_result, calls, agent_out, llm_calls>>

\* ---- bounds ----
\* operations started on the trace, one after the other
MaxRuns == 2
\* the clock reads 0..MaxTime
MaxTime == 0

\* ---- dict helpers ----
Null == "null"
TRACE == "T"
EmptyDict == [k \in {} |-> Null]

\* dict.get(k)
Get(d, k) == IF k \in DOMAIN d THEN d[k] ELSE Null
\* d[k] = v
Put(d, k, v) == (k :> v) @@ d
\* mutant: the note is put in front of the list
PrependWarning(d, w) ==
    Put(d, "warnings", IF "warnings" \in DOMAIN d THEN <<w>> \o d["warnings"] ELSE <<w>>)

\* d.setdefault("warnings", []).append(w)
AppendWarning(d, w) ==
    Put(d, "warnings", Append(IF "warnings" \in DOMAIN d THEN d["warnings"] ELSE <<>>, w))
\* truthiness of a str-or-None value
Truthy(s) == s # Null /\ s # ""

IsPrefix(s, t) == Len(s) <= Len(t) /\ SubSeq(t, 1, Len(s)) = s

\* ---- the inputs of one run ----
TextEn == "weather in Paris"
TextJa == "Pari no tenki"
TextTr == "What is the weather in Paris"

\* recognizer.recognize_once(): reason, text and detected language of the result;
\* "nocreds" is the missing AZURE_SPEECH_KEY / AZURE_SPEECH_REGION case
SttOutcomes ==
    { [reason |-> "RecognizedSpeech", text |-> TextEn, lang |-> "en-US"],
      [reason |-> "RecognizedSpeech", text |-> TextJa, lang |-> "ja-JP"],
      [reason |-> "NoMatch",          text |-> "",     lang |-> Null],
      [reason |-> "Canceled",         text |-> "",     lang |-> Null],
      [reason |-> "nocreds",          text |-> "",     lang |-> Null] }

\* outcome of the translator HTTP call
TranslateOutcomes == {"ok", "http_error"}

\* outcome of open(text_path, "w") / tf.write
TextFileOutcomes == {"ok", "oserror"}

\* outcome of model.generate_content
LlmOutcomes == {"ok", "error"}

\* what the services behind travel_weather_agent answer:
\*   ner   first GPE/LOC entity spaCy finds (Null: none, or nlp not loaded)
\*   cand  whether geocoding returns a candidate that fuzzy-matches (score >= 70)
\*   date  what dateparser.parse returns
\*   owkey OPENWEATHER_API_KEY is set
\*   geo   the geocoding call of fetch_weather: "found" | "empty" | "fail"
\*   wx    the weather call: "ok" | "fail" | "malformed" (a JSON body that is no object)
AgentEnvs ==
    { [ner |-> "paris", cand |-> TRUE,  date |-> Null,         owkey |-> TRUE,  geo |-> "found", wx |-> "ok"],
      [ner |-> Null,    cand |-> FALSE, date |-> "2026-11-03", owkey |-> TRUE,  geo |-> "empty", wx |-> "ok"],
      [ner |-> "paris", cand |-> FALSE, date |-> Null,         owkey |-> TRUE,  geo |-> "found", wx |-> "malformed"],
      [ner |-> Null,    cand |-> TRUE,  date |-> Null,         owkey |-> FALSE, geo |-> "fail",  wx |-> "fail"] }

\* every combination of answers of those services, for the requests that call the agent
\* directly
AgentEnvAll ==
    [ner : {"paris", Null}, cand : BOOLEAN, date : {Null, "2026-11-03"},
     owkey : BOOLEAN, geo : {"found", "empty", "fail"}, wx : {"ok", "fail", "malformed"}]

\* the `query` parameter of POST /api/text
TextQueries == {TextEn, TextJa, TextTr, ""}

\* a call either returns a value or raises
Return(v) == [raised |-> FALSE, value |-> v, error |-> ""]
Raise(msg) == [raised |-> TRUE, value |-> EmptyDict, error |-> msg]

\* mutant: a no-speech result comes back without a text
transcribe_no_match_without_text(o) ==
    IF o.reason = "nocreds"
      THEN Raise("Azure credentials not set")
    ELSE IF o.reason = "RecognizedSpeech"
      THEN Return([text |-> o.text, confidence |-> Null,
                   provider |-> "azure-speech", detected_language |-> o.lang])
    ELSE IF o.reason = "NoMatch"
      THEN Return([text |-> Null, confidence |-> "0.0",
                   provider |-> "azure-speech", detected_language |-> Null])
    ELSE Raise("Azure STT failed")

\* ---- app/stt_helpers.py ----
transcribe_with_azure(o) ==
    IF o.reason = "nocreds"
      THEN Raise("Azure credentials not set")
    ELSE IF o.reason = "RecognizedSpeech"
      THEN Return([text |-> o.text, confidence |-> Null,
                   provider |-> "azure-speech", detected_language |-> o.lang])
    ELSE IF o.reason = "NoMatch"
      THEN Return([text |-> "", confidence |-> "0.0",
                   provider |-> "azure-speech", detected_language |-> Null])
    ELSE Raise("Azure STT failed")

\* the translator's answer for a transcript
Translation(text) == IF text = TextJa THEN TextTr ELSE text

translate_to_english(text, o) ==
    IF o = "ok" THEN Return(Translation(text)) ELSE Raise("translator error")

\* det.lower().startswith("ja"), on the language tags the recognizer is configured with
StartsWithJa(det) == det \in {"ja-JP"}

\* lines 177-184: the record built from the recognizer's result
SttRecord(trace_id, stt_result, t) ==
    [trace_id |-> trace_id,
     text |-> Get(stt_result, "text"),
     confidence |-> Get(stt_result, "confidence"),
     provider |-> Get(stt_result, "provider"),
     detected_language |-> Get(stt_result, "detected_language"),
     processed_at |-> t]

\* line 188: is the translator called?
NeedsTranslation(r) ==
    LET det == IF Truthy(Get(r, "detected_language")) THEN r["detected_language"] ELSE ""
    IN  Truthy(r["text"]) /\ StartsWithJa(det)

\* lines 193-195
TranslationFailedRecord(r, msg) ==
    AppendWarning(Put(r, "text_en", Null), "translation_failed")

\* mutant: the agent is always handed the original transcript
TextForAgentOriginal(r) ==
    IF Truthy(Get(r, "text")) THEN r["text"] ELSE ""

\* line 211
TextForAgent(r) ==
    IF Truthy(Get(r, "text_en")) THEN r["text_en"]
    ELSE IF Truthy(Get(r, "text")) THEN r["text"] ELSE ""

\* lines 219-235, for the {"nlu", "weather"} dict the agent returns
AgentAttachedRecord(r, agent_output) ==
    Put(Put(Put(r, "agent_raw", agent_output),
            "nlu", agent_output["nlu"]),
            "weather", agent_output["weather"])

\* mutant: the handler fills the placeholders but records no warning
AgentFailedRecordNoWarning(r, err_text) ==
    Put(Put(Put(r,
            "agent_raw", [error |-> err_text]),
            "nlu", [error |-> "agent_failed"]),
            "weather", [error |-> "agent_failed"])

\* lines 240-246
AgentFailedRecord(r, err_text) ==
    Put(Put(Put(AppendWarning(r, "agent_failed"),
            "agent_raw", [error |-> err_text]),
            "nlu", [error |-> "agent_failed"]),
            "weather", [error |-> "agent_failed"])

\* mutant: the failure is merged into the record gathered so far
FailedRecordMerged(trace_id, e, t) ==
    Put(Put(Put(Put(result, "trace_id", trace_id), "status", "failed"), "error", e),
        "processed_at", t)

\* lines 306-311
FailedRecord(trace_id, e, t) ==
    [trace_id |-> trace_id, status |-> "failed", error |-> e, processed_at |-> t]

\* mutant: the response is merged but the run is not marked done
MergeResponseNoStatus(r, bot_out) ==
    Put(r, "response",
        [text |-> Get(bot_out, "response_text"),
         generated_at |-> Get(bot_out, "generated_at"),
         response_language |-> Get(bot_out, "response_language"),
         tts |-> Get(bot_out, "tts"),
         error |-> Get(bot_out, "error")])

\* lines 279-289
MergeResponse(r, bot_out) ==
    Put(Put(r, "response",
            [text |-> Get(bot_out, "response_text"),
             generated_at |-> Get(bot_out, "generated_at"),
             response_language |-> Get(bot_out, "response_language"),
             tts |-> Get(bot_out, "tts"),
             error |-> Get(bot_out, "error")]),
        "status", "done")

\* mutant: the handler writes a fresh record instead of extending the gathered one
ChatbotFailedRecordFresh(r, warn_text) ==
    [trace_id |-> r["trace_id"], status |-> "agent_done_chatbot_failed",
     warnings |-> <<"chatbot_failed">>]

\* mutant: the handler sets a status outside the documented set
ChatbotFailedRecordBadStatus(r, warn_text) ==
    Put(AppendWarning(r, "chatbot_failed"), "status", "chatbot_failed")

\* lines 297-300
ChatbotFailedRecord(r, warn_text) ==
    Put(AppendWarning(r, "chatbot_failed"), "status", "agent_done_chatbot_failed")

\* ---- app/weather_agent.py ----
\* re.search(r"\b(?:in|to|at)\s+([A-Za-z]+(?:\s[A-Za-z]+)*)", query), on the run's texts
RegexLocation(query) == IF query \in {TextEn, TextTr} THEN "Paris" ELSE Null

\* best_match[0].split(",")[0]: the city name of the geocoding candidate "Paris, FR"
CandidateCity(location) == IF location = "paris" THEN "Paris" ELSE location

extract_location(query, env) ==
    LET ner == env.ner
        location == IF Truthy(ner) THEN ner ELSE RegexLocation(query)
    IN  IF ~Truthy(location) THEN Null
        ELSE IF env.cand THEN CandidateCity(location)
        ELSE location

\* env.date is what dateparser.parse finds; the run's texts hold neither "today" nor
\* "tomorrow", so the textual fallback of lines 104-108 adds nothing to it
nlu_parser_travel(query, env, t) ==
    [intent |-> "get_weather_travel_advice",
     entities |-> [location |-> extract_location(query, env), date |-> env.date],
     slots |-> [theme |-> "travel"],
     dialog_metadata |-> [original_query |-> query, language |-> "en", timestamp |-> t]]

\* returns the weather dict, or raises when the weather payload is no JSON object
\* (lines 153-168 are outside the try blocks)
fetch_weather(location, env) ==
    IF ~Truthy(location) THEN Return([error |-> "No location provided"])
    ELSE IF ~env.owkey THEN Return([error |-> "OPENWEATHER_API_KEY not set"])
    ELSE IF env.geo = "empty" THEN Return([error |-> "Location not found"])
    ELSE IF env.geo = "fail" THEN Return([error |-> "geocoding_failed"])
    ELSE IF env.wx = "fail" THEN Return([error |-> "weather_fetch_failed"])
    ELSE IF env.wx = "malformed" THEN Raise("AttributeError: object has no attribute get")
    ELSE Return([location |-> "Paris", country |-> "FR", weather_main |-> "Clouds"])

travel_weather_agent(query, env, t) ==
    LET nlu == nlu_parser_travel(query, env, t)
        location == nlu.entities.location
        weather == IF Truthy(location) THEN fetch_weather(location, env)
                   ELSE Return([error |-> "no_location_extracted"])
    IN  IF weather.raised THEN Raise(weather.error)
        ELSE Return([nlu |-> nlu, weather |-> weather.value])

\* mutant: the Weather Fetcher is invoked whether or not a location was extracted
AgentCallsAlwaysFetch(query, env) ==
    <<"nlu_parser_travel", "dateparser", "fetch_weather">>

\* the calls extract_location makes: spaCy and the regex are local, the only service
\* call is the geocoding lookup of get_candidate_locations, made after the early return
\* of lines 74-75
ExtractCalls(query, env) ==
    LET location == IF Truthy(env.ner) THEN env.ner ELSE RegexLocation(query)
    IN  IF ~Truthy(location) THEN <<>> ELSE <<"geocode_candidates">>

\* the calls fetch_weather makes: none before the two early returns of lines 129-132,
\* the weather call only after a geocoding answer with coordinates
FetchCalls(location, env) ==
    IF ~Truthy(location) \/ ~env.owkey THEN <<>>
    ELSE IF env.geo = "found" THEN <<"geocode", "weather">>
    ELSE <<"geocode">>

\* the functions and services travel_weather_agent calls, in order
AgentCalls(query, env) ==
    LET location == extract_location(query, env)
    IN  <<"nlu_parser_travel">> \o ExtractCalls(query, env) \o <<"dateparser">>
          \o (IF Truthy(location)
                THEN <<"fetch_weather">> \o FetchCalls(location, env)
                ELSE <<>>)

\* ---- app/chatbot.py ----
\* `d.get(k)` is a non-empty dict
HasDict(d, k) == k \in DOMAIN d /\ DOMAIN d[k] # {}

\* root.get(k) or root.get("agent_raw", {}).get(k), when one of them is truthy
NluOrWeather(root, k) ==
    IF HasDict(root, k) THEN root[k] ELSE root["agent_raw"][k]

HasNluOrWeather(root, k) ==
    HasDict(root, k) \/ ("agent_raw" \in DOMAIN root /\ HasDict(root["agent_raw"], k))

\* f"{loc}, {country}".strip(", ").strip()
LocationStr(loc, country) ==
    IF loc = "" THEN country
    ELSE IF country = "" THEN loc
    ELSE loc \o ", " \o country

StrOrEmpty(s) == IF Truthy(s) THEN s ELSE ""

build_merged_context(nlu, weather) ==
    LET dialog_md == IF "dialog_metadata" \in DOMAIN nlu THEN nlu["dialog_metadata"] ELSE EmptyDict
        entities == IF "entities" \in DOMAIN nlu THEN nlu["entities"] ELSE EmptyDict
        slots == IF "slots" \in DOMAIN nlu THEN nlu["slots"] ELSE EmptyDict
        loc == IF Truthy(Get(weather, "location")) THEN weather["location"]
               ELSE StrOrEmpty(Get(entities, "location"))
        country == StrOrEmpty(Get(weather, "country"))
    IN  [user_query |-> StrOrEmpty(Get(dialog_md, "original_query")),
         intent |-> Get(nlu, "intent"),
         location |-> LocationStr(loc, country),
         date |-> Get(entities, "date"),
         theme |-> Get(slots, "theme"),
         weather_data |-> weather]

\* call_model_generate inside the try of lines 108-112
LlmResult(llm) ==
    IF llm = "ok" THEN [response_text |-> "Cloudy in Paris; take an umbrella.", error |-> Null]
    ELSE [response_text |-> "", error |-> "chatbot_failed"]

\* generate_travel_response(trace_id, sidecar_path, api_key): `key` is api_key or the
\* environment's key, (fs, root) the sidecar file as load_json finds it
generate_travel_response(trace_id, fs, root, key, llm, t) ==
    IF ~key THEN Raise("No API key provided for chatbot")
    ELSE IF fs = "absent" THEN Raise("FileNotFoundError")
    ELSE IF fs # "complete" THEN Raise("JSONDecodeError")
    ELSE IF ~HasNluOrWeather(root, "nlu") THEN Raise("No NLU found in JSON")
    ELSE IF ~HasNluOrWeather(root, "weather") THEN Raise("No weather found in JSON")
    ELSE LET nlu == NluOrWeather(root, "nlu")
             weather == NluOrWeather(root, "weather")
             merged_context == build_merged_context(nlu, weather)
             entities == IF "entities" \in DOMAIN nlu THEN nlu["entities"] ELSE EmptyDict
             city == IF Truthy(Get(weather, "location")) THEN weather["location"]
                     ELSE IF Truthy(Get(entities, "location")) THEN entities["location"]
                     ELSE "unknown"
             out == LlmResult(llm)
         IN  Return([trace_id |-> trace_id,
                     city |-> city,
                     response_text |-> out.response_text,
                     merged_context |-> merged_context,
                     generated_at |-> t,
                     response_language |-> "en",
                     tts |-> Null,
                     error |-> out.error])

\* ---- state machine ----
NoReply == [ep |-> "none", code |-> 0, body |-> EmptyDict]

Init ==
    /\ wav \in BOOLEAN
    /\ apiKey \in BOOLEAN
    /\ fstate = "absent"
    /\ sidecar = EmptyDict
    /\ txt = "absent"
    /\ now = 0
    /\ kind = "none"
    /\ pc = "idle"
    /\ wphase = "none"
    /\ result = EmptyDict
    /\ english_text = Null
    /\ text_for_agent = Null
    /\ exc = ""
    /\ err = EmptyDict
    /\ runs = 0
    /\ written = <<>>
    /\ log = <<>>
    /\ before = <<"absent", EmptyDict>>
    /\ reply = NoReply
    /\ raw = FALSE
    /\ up_pc = "none"
    /\ tasks = 0
    /\ m_pc = "idle"
    /\ m_result = EmptyDict
    /\ calls = <<>>
    /\ agent_out = Return(EmptyDict)
    /\ llm_calls = 0

\* what no step of a run changes: the files and keys it finds, and the other requests
Env == <<wav, apiKey, raw, up_pc, tasks, m_pc, m_result, calls, agent_out, llm_calls>>
File == <<fstate, sidecar, wphase>>
Locals == <<result, english_text, text_for_agent, exc, err>>

Logged(stage, outcome) == log' = Append(log, <<stage, outcome>>)

\* int(time.time()) / datetime.utcnow(): the clock is read at t, no earlier than before
ReadClock(t) == t \in now..MaxTime /\ now' = t

\* a new operation starts on the trace, with fresh locals
Start(k) ==
    /\ pc \in {"idle", "finished"}
    /\ runs < MaxRuns
    /\ kind' = k
    /\ pc' = "entry"
    /\ runs' = runs + 1
    /\ written' = <<>>
    /\ log' = <<>>
    /\ before' = <<fstate, sidecar>>
    /\ result' = EmptyDict /\ english_text' = Null /\ text_for_agent' = Null /\ exc' = "" /\ err' = EmptyDict
    /\ UNCHANGED <<Env, File, txt, now>>
    /\ reply' = NoReply

\* the task upload_voice scheduled: background_process_trace(trace_id)
StartBackground == Start("bg")

\* POST /api/stt/{trace_id}/process
StartManual == Start("manual")

\* mutant: the existence check is missing
AfterCheckAudioUnchecked(exists) == "stt"

\* lines 171-172: os.path.exists(orig_wav) decides whether process_trace goes on
AfterCheckAudio(exists) == IF exists THEN "stt" ELSE "raised"

\* process_trace, lines 170-172
CheckAudio ==
    /\ pc = "entry"
    /\ pc' = AfterCheckAudio(wav)
    /\ IF AfterCheckAudio(wav) = "raised"
         THEN exc' = "FileNotFoundError" /\ Logged("audio", "raised")
         ELSE exc' = exc /\ Logged("audio", "returned")
    /\ UNCHANGED <<Env, File, txt, now, kind, result, english_text, text_for_agent, err, runs,
                   written, before>>
    /\ reply' = NoReply

\* mutant: without translation the first sidecar write is skipped
AfterSttSkipsCheckpoint(r) == IF NeedsTranslation(r) THEN "translate" ELSE "textfile"

\* where process_trace goes after line 188
AfterStt(r) == IF NeedsTranslation(r) THEN "translate" ELSE "cp1"

\* process_trace, lines 175-188 and 196-197
Transcribe ==
    /\ pc = "stt"
    /\ \E o \in SttOutcomes : \E t \in 0..MaxTime :
         LET stt_result == transcribe_with_azure(o)
             r == SttRecord(TRACE, stt_result.value, t)
         IN  IF stt_result.raised
               THEN /\ exc' = stt_result.error
                    /\ pc' = "raised"
                    /\ Logged("stt", "raised")
                    /\ UNCHANGED <<result, english_text, now>>
               ELSE /\ ReadClock(t)
                    /\ english_text' = r["text"]
                    /\ pc' = AfterStt(r)
                    /\ result' = IF AfterStt(r) = "translate" THEN r
                                 ELSE Put(r, "text_en", r["text"])
                    /\ Logged("stt", "returned")
                    /\ exc' = exc
    /\ UNCHANGED <<Env, File, txt, kind, text_for_agent, err, runs, written, before>>
    /\ reply' = NoReply

\* process_trace, lines 189-195
Translate ==
    /\ pc = "translate"
    /\ \E o \in TranslateOutcomes :
         LET translated == translate_to_english(english_text, o)
         IN  IF translated.raised
               THEN /\ result' = TranslationFailedRecord(result, translated.error)
                    /\ english_text' = english_text
                    /\ Logged("translate", "raised")
               ELSE /\ result' = Put(result, "text_en", translated.value)
                    /\ english_text' = translated.value
                    /\ Logged("translate", "returned")
    /\ pc' = "cp1"
    /\ UNCHANGED <<Env, File, txt, now, kind, text_for_agent, exc, err, runs, written, before>>
    /\ reply' = NoReply

\* the `with open(stt_sidecar_path(trace_id), "w")` blocks of lines 200, 249, 292, 301, 312
WriteSites == {"cp1", "cp2", "done", "chatfail", "failed"}

\* the document json.dump is given at each of them
DocToWrite == IF pc = "failed" THEN err ELSE result

\* mutant: after checkpoint 2 every caller goes on to response generation
AfterWriteAlwaysResponds(p, k) ==
    CASE p = "cp1" -> "textfile"
      [] p = "cp2" -> "bot"
      [] OTHER -> "finished"

\* mutant: the wrapper raises again after it has written the failed record
AfterWriteReraises(p, k) ==
    CASE p = "cp1" -> "textfile"
      [] p = "cp2" -> IF k = "manual" THEN "returned" ELSE "bot"
      [] p = "failed" -> "crashed"
      [] OTHER -> "finished"

\* where the code continues after each of them
AfterWrite(p, k) ==
    CASE p = "cp1" -> "textfile"
      [] p = "cp2" -> IF k = "manual" THEN "returned" ELSE "bot"
      [] OTHER -> "finished"

\* open(path, "w"): the file is created or truncated
OpenSidecar ==
    /\ pc \in WriteSites
    /\ wphase = "none"
    /\ wphase' = "opened"
    /\ fstate' = "empty"
    /\ sidecar' = EmptyDict
    /\ UNCHANGED <<Env, txt, now, kind, pc, Locals, runs, written, log, before>>
    /\ reply' = NoReply

\* json.dump fills the buffer and a first part is flushed to the file
FlushSidecar ==
    /\ pc \in WriteSites
    /\ wphase = "opened"
    /\ wphase' = "flushed"
    /\ fstate' = "partial"
    /\ UNCHANGED <<Env, sidecar, txt, now, kind, pc, Locals, runs, written, log, before>>
    /\ reply' = NoReply

\* leaving the with block: the rest is flushed and the file closed
CloseSidecar ==
    /\ pc \in WriteSites
    /\ wphase \in {"opened", "flushed"}
    /\ wphase' = "none"
    /\ fstate' = "complete"
    /\ sidecar' = DocToWrite
    /\ written' = Append(written, [site |-> pc, doc |-> DocToWrite])
    /\ Logged("write", pc)
    /\ pc' = AfterWrite(pc, kind)
    /\ IF AfterWrite(pc, kind) = "finished"
         THEN result' = EmptyDict /\ english_text' = Null /\ text_for_agent' = Null /\ exc' = "" /\ err' = EmptyDict
         ELSE UNCHANGED Locals
    /\ UNCHANGED <<Env, txt, now, kind, runs, before>>
    /\ reply' = NoReply

\* process_trace, lines 204-208
WriteTextFile ==
    /\ pc = "textfile"
    /\ \E o \in TextFileOutcomes :
         IF o = "ok"
           THEN /\ txt' = (IF Truthy(english_text) THEN english_text ELSE "")
                /\ result' = Put(result, "text_file", "T.txt")
                /\ pc' = "agent"
                /\ exc' = exc
                /\ Logged("textfile", "returned")
           ELSE /\ exc' = "OSError"
                /\ pc' = "raised"
                /\ Logged("textfile", "raised")
                /\ UNCHANGED <<txt, result>>
    /\ UNCHANGED <<Env, File, now, kind, english_text, text_for_agent, err, runs, written, before>>
    /\ reply' = NoReply

\* process_trace, lines 211-246
RunAgent ==
    /\ pc = "agent"
    /\ \E env \in AgentEnvs : \E t \in 0..MaxTime :
         LET agent_output == travel_weather_agent(TextForAgent(result), env, t)
         IN  /\ ReadClock(t)
             /\ text_for_agent' = TextForAgent(result)
             /\ IF agent_output.raised
                   THEN /\ result' = AgentFailedRecord(result, agent_output.error)
                        /\ Logged("agent", "raised")
                   ELSE /\ result' = AgentAttachedRecord(result, agent_output.value)
                        /\ Logged("agent", "returned")
    /\ pc' = "cp2"
    /\ UNCHANGED <<Env, File, txt, kind, english_text, exc, err, runs, written,
                   before>>
    /\ reply' = NoReply

\* stt_process_endpoint, line 165: the record is the reply
ManualReturn ==
    /\ pc = "returned"
    /\ kind = "manual"
    /\ reply' = [ep |-> "process", code |-> 200, body |-> result]
    /\ pc' = "finished"
    /\ result' = EmptyDict /\ english_text' = Null /\ text_for_agent' = Null /\ exc' = "" /\ err' = EmptyDict
    /\ UNCHANGED <<Env, File, txt, now, kind, runs, written, log, before>>

\* stt_process_endpoint, lines 160-164
ManualError ==
    /\ pc = "raised"
    /\ kind = "manual"
    /\ reply' = [ep |-> "process",
                 code |-> IF exc = "FileNotFoundError" THEN 404 ELSE 500,
                 body |-> [detail |-> exc]]
    /\ pc' = "finished"
    /\ result' = EmptyDict /\ english_text' = Null /\ text_for_agent' = Null /\ exc' = "" /\ err' = EmptyDict
    /\ UNCHANGED <<Env, File, txt, now, kind, runs, written, log, before>>

\* background_process_trace, lines 305-311
HandleFailure ==
    /\ pc = "raised"
    /\ kind = "bg"
    /\ \E t \in 0..MaxTime :
         /\ ReadClock(t)
         /\ err' = FailedRecord(TRACE, exc, t)
    /\ pc' = "failed"
    /\ UNCHANGED <<Env, File, txt, kind, result, english_text, text_for_agent, exc, runs, written, log,
                   before>>
    /\ reply' = NoReply

\* background_process_trace, lines 268-289 and 295-300
GenerateResponse ==
    /\ pc = "bot"
    /\ \E llm \in LlmOutcomes : \E t \in 0..MaxTime :
         LET bot_out == generate_travel_response(TRACE, fstate, sidecar, apiKey, llm, t)
         IN  IF bot_out.raised
               THEN /\ result' = ChatbotFailedRecord(result, bot_out.error)
                    /\ pc' = "chatfail"
                    /\ Logged("response", "raised")
                    /\ now' = now
               ELSE /\ ReadClock(t)
                    /\ result' = MergeResponse(result, bot_out.value)
                    /\ pc' = "done"
                    /\ Logged("response", IF bot_out.value["error"] = Null
                                            THEN "returned" ELSE "llm_failed")
    /\ UNCHANGED <<Env, File, txt, kind, english_text, text_for_agent, exc, err, runs, written, before>>
    /\ reply' = NoReply

\* what json.load(fh) makes of the sidecar file
ReadSidecar ==
    IF fstate = "complete" THEN Return(sidecar) ELSE Raise("JSONDecodeError")

\* GET /api/stt/{trace_id}
get_stt_result ==
    /\ reply' = IF fstate = "absent"
                  THEN [ep |-> "stt", code |-> 200,
                        body |-> [trace_id |-> TRACE, status |-> "pending"]]
                ELSE IF ReadSidecar.raised
                  THEN [ep |-> "stt", code |-> 500, body |-> [detail |-> ReadSidecar.error]]
                ELSE [ep |-> "stt", code |-> 200, body |-> ReadSidecar.value]
    /\ UNCHANGED <<Env, File, txt, now, kind, pc, Locals, runs, written, log, before>>

\* GET /api/stt/{trace_id}/agent
get_agent_result ==
    /\ reply' = IF fstate = "absent"
                  THEN [ep |-> "agent", code |-> 200,
                        body |-> [trace_id |-> TRACE, status |-> "pending"]]
                ELSE IF ReadSidecar.raised
                  THEN [ep |-> "agent", code |-> 500, body |-> [detail |-> ReadSidecar.error]]
                ELSE LET data == ReadSidecar.value
                     IN  [ep |-> "agent", code |-> 200,
                          body |-> (IF "nlu" \in DOMAIN data
                                      THEN [nlu |-> data["nlu"]] ELSE EmptyDict)
                                @@ (IF "weather" \in DOMAIN data
                                      THEN [weather |-> data["weather"]] ELSE EmptyDict)
                                @@ [trace_id |-> TRACE,
                                    status |-> IF "status" \in DOMAIN data
                                                 THEN data["status"] ELSE "done"]]
    /\ UNCHANGED <<Env, File, txt, now, kind, pc, Locals, runs, written, log, before>>

\* mutant: the endpoint stores the payload it generated in the sidecar
SidecarWithResponse(root, out) == MergeResponse(root, out)

\* the sidecar's content after generate_travel_response(trace_id, sidecar): the function
\* opens the file for reading only (load_json) and returns its payload
SidecarAfterResponse(root, out) == root

\* GET /api/stt/{trace_id}/response
get_chatbot_response ==
    /\ \E llm \in LlmOutcomes : \E t \in 0..MaxTime :
         LET out == generate_travel_response(TRACE, fstate, sidecar, apiKey, llm, t)
         IN  IF fstate = "absent"
               THEN /\ reply' = [ep |-> "response", code |-> 200,
                                 body |-> [trace_id |-> TRACE, status |-> "pending"]]
                    /\ UNCHANGED <<sidecar, now>>
             ELSE IF out.raised
               THEN /\ reply' = [ep |-> "response", code |-> 500,
                                 body |-> [detail |-> out.error]]
                    /\ UNCHANGED <<sidecar, now>>
             ELSE /\ ReadClock(t)
                  /\ reply' = [ep |-> "response", code |-> 200, body |-> out.value]
                  /\ sidecar' = SidecarAfterResponse(sidecar, out.value)
    /\ UNCHANGED <<Env, fstate, wphase, txt, kind, pc, Locals, runs, written, log, before>>

\* ---- app/main.py: POST /api/text ----
\* the reply of process_text_query for what the agent returned
TextReply(out, key, llm, t) ==
    IF out.raised
      THEN [ep |-> "text", code |-> 500, body |-> [detail |-> "agent_failed"]]
    ELSE IF DOMAIN out.value["nlu"] = {}
            \/ Get(out.value["weather"], "error") = "no_location_extracted"
      THEN [ep |-> "text", code |-> 200,
            body |-> [status |-> "failed",
                      response_text |-> "I couldn't identify the location in your query.",
                      error |-> "NLU failed to extract location"]]
    ELSE IF ~key
      THEN [ep |-> "text", code |-> 500, body |-> [detail |-> "context_error"]]
    ELSE IF llm # "ok"
      THEN [ep |-> "text", code |-> 500, body |-> [detail |-> "chatbot_failed"]]
    ELSE [ep |-> "text", code |-> 200,
          body |-> [status |-> "done",
                    response_text |-> LlmResult(llm).response_text,
                    generated_at |-> t,
                    nlu |-> out.value["nlu"],
                    weather |-> out.value["weather"]]]

\* mutant: the LLM is called whatever the agent returned
TextLlmCallsAlways(out, key) == 1

\* the number of call_model_generate calls the handler makes: none when the agent
\* raised (line 103), when no location was extracted (lines 109-114) or when no API
\* key is set (lines 122-123), else the one of line 137
TextLlmCalls(out, key) ==
    IF out.raised THEN 0
    ELSE IF DOMAIN out.value["nlu"] = {}
            \/ Get(out.value["weather"], "error") = "no_location_extracted" THEN 0
    ELSE IF ~key THEN 0
    ELSE 1

\* POST /api/text. The handler keeps no state between requests, so a behaviour follows
\* one request.
process_text_query ==
    /\ calls = <<>>
    /\ \E query \in TextQueries : \E env \in AgentEnvAll :
       \E llm \in LlmOutcomes : \E t \in 0..MaxTime :
         LET out == travel_weather_agent(query, env, t)
         IN  /\ ReadClock(t)
             /\ agent_out' = out
             /\ calls' = AgentCalls(query, env)
             /\ reply' = TextReply(out, apiKey, llm, t)
             /\ llm_calls' = TextLlmCalls(out, apiKey)
    /\ UNCHANGED <<wav, apiKey, raw, up_pc, tasks, m_pc, m_result, File, txt, kind, pc,
                   Locals, runs, written, log, before>>

\* ---- app/main.py: POST /api/voice and a concurrent POST /api/stt/{trace_id}/process ----
\* outcome of writing the raw upload, of ffmpeg, and of raw_path.unlink()
SaveOutcomes == {"ok", "oserror"}
ConvertOutcomes == {"ok", "ffmpeg_failed"}
DeleteOutcomes == {"ok", "oserror"}

\* no upload has been received for the trace_id yet: uuid4 makes a new one per upload
InitApi == Init /\ wav = FALSE

\* save_upload_and_convert_async, lines 85-88, up to the first await returning
UploadSave ==
    /\ up_pc = "none"
    /\ \E o \in SaveOutcomes :
         IF o = "ok"
           THEN /\ raw' = TRUE
                /\ up_pc' = "saved"
                /\ reply' = NoReply
           ELSE /\ raw' \in BOOLEAN
                /\ up_pc' = "failed"
                /\ reply' = [ep |-> "voice", code |-> 500,
                             body |-> [detail |-> "save_or_convert_failed"]]
    /\ UNCHANGED <<wav, apiKey, tasks, m_pc, m_result, calls, agent_out, llm_calls, File, txt, now,
                   kind, pc, Locals, runs, written, log, before>>

\* mutant: a failed conversion is not noticed
AfterConvertIgnoresFailure(o) == "converted"

\* where upload_voice goes after `await asyncio.to_thread(_convert)`, lines 94-98 and
\* main.py lines 78-80
AfterConvert(o) == IF o = "ok" THEN "converted" ELSE "failed"

\* mutant: the raw upload is removed when the conversion fails
RawRemovedOnFailure(o) == o = "ok"

\* the raw upload after the conversion: still there, whether it failed ("keep raw file
\* for debugging", line 97) or not (it is deleted later, lines 101-105)
RawAfterConvert(o) == TRUE

\* save_upload_and_convert_async, lines 90-98
UploadConvert ==
    /\ up_pc = "saved"
    /\ \E o \in ConvertOutcomes :
         /\ wav' = (o = "ok")
         /\ raw' = RawAfterConvert(o)
         /\ up_pc' = AfterConvert(o)
         /\ reply' = IF AfterConvert(o) = "failed"
                       THEN [ep |-> "voice", code |-> 500,
                             body |-> [detail |-> "save_or_convert_failed"]]
                       ELSE NoReply
    /\ UNCHANGED <<apiKey, tasks, m_pc, m_result, calls, agent_out, llm_calls, File, txt, now,
                   kind, pc, Locals, runs, written, log, before>>

\* mutant: the task is added twice
ScheduledTwice(n) == n + 2

\* background_tasks.add_task(background_process_trace, trace_id, ...), main.py line 83
ScheduledTasks(n) == n + 1

\* save_upload_and_convert_async, lines 100-108, then main.py lines 82-86: the raw file
\* is deleted (best effort), the task added and the response returned
UploadFinish ==
    /\ up_pc = "converted"
    /\ \E o \in DeleteOutcomes : raw' = (o # "ok")
    /\ tasks' = ScheduledTasks(tasks)
    /\ up_pc' = "responded"
    /\ reply' = [ep |-> "voice", code |-> 200,
                 body |-> [trace_id |-> TRACE, status |-> "processing"]]
    /\ UNCHANGED <<wav, apiKey, m_pc, m_result, calls, agent_out, llm_calls, File, txt, now,
                   kind, pc, Locals, runs, written, log, before>>

\* the runtime starts a task upload_voice added, after the response has been sent
StartScheduled ==
    /\ tasks > 0
    /\ up_pc = "responded"
    /\ pc \in {"idle", "finished"}
    /\ runs < MaxRuns
    /\ tasks' = tasks - 1
    /\ kind' = "bg"
    /\ pc' = "entry"
    /\ runs' = runs + 1
    /\ written' = <<>>
    /\ log' = <<>>
    /\ before' = <<fstate, sidecar>>
    /\ result' = EmptyDict /\ english_text' = Null /\ text_for_agent' = Null
    /\ exc' = "" /\ err' = EmptyDict
    /\ UNCHANGED <<wav, apiKey, raw, up_pc, m_pc, m_result, calls, agent_out, llm_calls, File, txt,
                   now>>
    /\ reply' = NoReply

\* what a process request that runs beside the task gets from the recognizer and the
\* translator
ConcurrentSttOutcomes == SttOutcomes

\* POST /api/stt/{trace_id}/process by a client that got the trace_id from upload_voice,
\* in a worker thread of its own: process_trace lines 169-201, up to and including the
\* checkpoint-1 write (taken as one step, made while no other write is open). A
\* behaviour follows one such request beside the scheduled task.
ProcessRequestBegin ==
    /\ up_pc = "responded"
    /\ m_pc = "idle"
    /\ wphase = "none"
    /\ \E o \in ConcurrentSttOutcomes : \E tr \in TranslateOutcomes : \E t \in 0..MaxTime :
         LET stt_result == transcribe_with_azure(o)
             r == SttRecord(TRACE, stt_result.value, t)
             translated == translate_to_english(r["text"], tr)
             r1 == IF ~NeedsTranslation(r) THEN Put(r, "text_en", r["text"])
                   ELSE IF translated.raised
                     THEN TranslationFailedRecord(r, translated.error)
                   ELSE Put(r, "text_en", translated.value)
         IN  IF ~wav
               THEN /\ reply' = [ep |-> "process", code |-> 404,
                                 body |-> [detail |-> "FileNotFoundError"]]
                    /\ m_pc' = "done"
                    /\ UNCHANGED <<m_result, fstate, sidecar, now>>
             ELSE IF stt_result.raised
               THEN /\ reply' = [ep |-> "process", code |-> 500,
                                 body |-> [detail |-> stt_result.error]]
                    /\ m_pc' = "done"
                    /\ UNCHANGED <<m_result, fstate, sidecar, now>>
             ELSE /\ ReadClock(t)
                  /\ m_result' = r1
                  /\ fstate' = "complete"
                  /\ sidecar' = r1
                  /\ m_pc' = "between"
                  /\ reply' = NoReply
    /\ UNCHANGED <<wav, apiKey, raw, up_pc, tasks, calls, agent_out, llm_calls, wphase, txt,
                   kind, pc, Locals, runs, written, log, before>>

\* the same request, process_trace lines 203-252 and the endpoint's return
ProcessRequestFinish ==
    /\ m_pc = "between"
    /\ wphase = "none"
    /\ \E o \in TextFileOutcomes : \E env \in AgentEnvs : \E t \in 0..MaxTime :
         LET r == Put(m_result, "text_file", "T.txt")
             agent_output == travel_weather_agent(TextForAgent(r), env, t)
             r2 == IF agent_output.raised
                     THEN AgentFailedRecord(r, agent_output.error)
                     ELSE AgentAttachedRecord(r, agent_output.value)
         IN  IF o # "ok"
               THEN /\ reply' = [ep |-> "process", code |-> 500,
                                 body |-> [detail |-> "OSError"]]
                    /\ UNCHANGED <<fstate, sidecar, txt, now>>
               ELSE /\ ReadClock(t)
                    /\ txt' = TextForAgent(m_result)
                    /\ fstate' = "complete"
                    /\ sidecar' = r2
                    /\ reply' = [ep |-> "process", code |-> 200, body |-> r2]
    /\ m_pc' = "done"
    /\ m_result' = EmptyDict
    /\ UNCHANGED <<wav, apiKey, raw, up_pc, tasks, calls, agent_out, llm_calls, wphase,
                   kind, pc, Locals, runs, written, log, before>>

Next ==
    \/ StartBackground
    \/ StartManual
    \/ CheckAudio
    \/ Transcribe
    \/ Translate
    \/ OpenSidecar
    \/ FlushSidecar
    \/ CloseSidecar
    \/ WriteTextFile
    \/ RunAgent
    \/ ManualReturn
    \/ ManualError
    \/ HandleFailure
    \/ GenerateResponse
    \/ get_stt_result
    \/ get_agent_result

Spec == Init /\ [][Next]_vars

\* the background runs of the pipeline and the requests for a generated response
NextResp ==
    \/ StartBackground
    \/ CheckAudio
    \/ Transcribe
    \/ Translate
    \/ OpenSidecar
    \/ FlushSidecar
    \/ CloseSidecar
    \/ WriteTextFile
    \/ RunAgent
    \/ HandleFailure
    \/ GenerateResponse
    \/ get_chatbot_response

SpecResp == Init /\ [][NextResp]_vars

\* the text requests: each one calls the Travel Agent on its query
NextText ==
    \/ process_text_query

SpecText == Init /\ [][NextText]_vars

\* one upload, the task it schedules, and process requests for its trace_id
NextApi ==
    \/ UploadSave
    \/ UploadConvert
    \/ UploadFinish
    \/ StartScheduled
    \/ CheckAudio
    \/ Transcribe
    \/ Translate
    \/ OpenSidecar
    \/ FlushSidecar
    \/ CloseSidecar
    \/ WriteTextFile
    \/ RunAgent
    \/ HandleFailure
    \/ GenerateResponse
    \/ ProcessRequestBegin
    \/ ProcessRequestFinish

SpecApi == InitApi /\ [][NextApi]_vars

\* a step of background_process_trace once it has been started: every call it makes
\* returns or raises, and every write of the sidecar completes
TaskStep ==
    \/ CheckAudio
    \/ Transcribe
    \/ Translate
    \/ OpenSidecar
    \/ FlushSidecar
    \/ CloseSidecar
    \/ WriteTextFile
    \/ RunAgent
    \/ HandleFailure
    \/ GenerateResponse

\* one upload and the task it schedules
NextLive ==
    \/ UploadSave
    \/ UploadConvert
    \/ UploadFinish
    \/ StartScheduled
    \/ CheckAudio
    \/ Transcribe
    \/ Translate
    \/ OpenSidecar
    \/ FlushSidecar
    \/ CloseSidecar
    \/ WriteTextFile
    \/ RunAgent
    \/ HandleFailure
    \/ GenerateResponse

\* the runtime starts every task that was added and the task never stops halfway;
\* nothing is assumed of the upload request
SpecLive == InitApi /\ [][NextLive]_vars /\ WF_vars(StartScheduled) /\ WF_vars(TaskStep)

\* ---- properties ----
InLog(stage, outcome) == \E i \in DOMAIN log : log[i] = <<stage, outcome>>
HasWrite(site) == \E i \in DOMAIN written : written[i].site = site
DocAt(site) == written[CHOOSE i \in DOMAIN written : written[i].site = site].doc

\* process_trace raised in this run
PipelineRaised ==
    InLog("audio", "raised") \/ InLog("stt", "raised") \/ InLog("textfile", "raised")

\* every field of d1 is in d2 with the same value; the warnings list may have grown
Grows(d1, d2) ==
    \A k \in DOMAIN d1 :
        /\ k \in DOMAIN d2
        /\ IF k = "warnings" THEN IsPrefix(d1[k], d2[k]) ELSE d2[k] = d1[k]

\* C1: in a background run every field of an earlier sidecar content is present with
\* the same value in every later content, whatever stage fails afterwards.
C1_FieldsNeverRetracted ==
    kind = "bg" =>
        \A i, j \in DOMAIN written :
            i < j => Grows(written[i].doc, written[j].doc)

\* C2: a reader of the sidecar never finds an empty, truncated or partial document:
\* the polling endpoints never fail on the JSON they read.
C2_ReaderSeesCompleteDocument ==
    reply.ep \in {"stt", "agent"} => reply.code = 200

\* C3 (as stated): checkpoint 1 is written before any later stage (translation,
\* text file, Travel Agent) starts.
C3_Checkpoint1RightAfterStt ==
    \A i \in DOMAIN log :
        log[i][1] \in {"translate", "textfile", "agent"}
            => \E j \in 1..(i - 1) : log[j] = <<"write", "cp1">>

\* C3 (amended): the translation step runs before checkpoint 1; the text-file write
\* and the Travel Agent call start only after checkpoint 1 is complete, and when
\* process_trace is in or has raised from one of them the sidecar file is this run's
\* complete checkpoint-1 record, which holds the transcript.
C3_Checkpoint1BeforeTextFileAndAgent ==
    /\ \A i \in DOMAIN log :
         /\ log[i][1] \in {"textfile", "agent"}
              => \E j \in 1..(i - 1) : log[j] = <<"write", "cp1">>
         /\ log[i][1] = "translate"
              => \A j \in 1..(i - 1) : log[j] # <<"write", "cp1">>
    /\ (pc \in {"textfile", "agent"} \/ (pc = "raised" /\ InLog("textfile", "raised")))
         => /\ fstate = "complete"
            /\ HasWrite("cp1")
            /\ sidecar = DocAt("cp1")
            /\ {"text", "text_en"} \subseteq DOMAIN sidecar
            /\ sidecar["text"] = result["text"]

C3_Witness ==
    /\ kind = "manual"
    /\ pc = "raised"
    /\ InLog("translate", "raised")
    /\ InLog("textfile", "raised")

\* C4 (as stated): when the audio file is missing, neither entry point invokes
\* speech-to-text and the sidecar ends exactly as the run found it.
C4_NoAudioNoSidecarChange ==
    (~wav /\ kind \in {"bg", "manual"})
        => /\ \A i \in DOMAIN log : log[i][1] # "stt"
           /\ pc = "finished" => <<fstate, sidecar>> = before

\* C4 (amended): when the audio file is missing, speech-to-text is not invoked by
\* either entry point; the manual endpoint answers 404 and leaves the sidecar as it
\* was; the background wrapper replaces the sidecar with the minimal failed record.
C4_NoAudioManualLeavesSidecar ==
    (~wav /\ kind \in {"bg", "manual"})
        => /\ \A i \in DOMAIN log : log[i][1] # "stt"
           /\ kind = "manual" => /\ <<fstate, sidecar>> = before
                                 /\ written = <<>>
                                 /\ reply.ep = "process" => reply.code = 404
           /\ (kind = "bg" /\ pc = "finished")
                => /\ fstate = "complete"
                   /\ sidecar["status"] = "failed"
                   /\ sidecar["error"] = "FileNotFoundError"
                   /\ DOMAIN sidecar = {"trace_id", "status", "error", "processed_at"}

C4_Witness ==
    /\ ~wav
    /\ kind = "manual"
    /\ pc = "finished"
    /\ reply.ep = "process"
    /\ before[1] = "complete"

TranscriptFields == {"trace_id", "text", "confidence", "provider", "detected_language",
                     "processed_at", "text_en"}
Checkpoint2Fields == TranscriptFields \cup {"text_file", "agent_raw", "nlu", "weather"}
WarningsOf(d) == IF "warnings" \in DOMAIN d THEN d["warnings"] ELSE <<>>
LastWarning(d) == IF WarningsOf(d) = <<>> THEN Null ELSE WarningsOf(d)[Len(WarningsOf(d))]

\* C5: when response generation raises after process_trace returned, the final sidecar
\* has status agent_done_chatbot_failed, its warnings end with chatbot_failed, and every
\* field of the checkpoint-2 record is retained with the same value.
C5_ChatbotFailureKeepsRecord ==
    (kind = "bg" /\ pc = "finished" /\ InLog("response", "raised"))
        => /\ fstate = "complete"
           /\ Get(sidecar, "status") = "agent_done_chatbot_failed"
           /\ LastWarning(sidecar) = "chatbot_failed"
           /\ HasWrite("cp2")
           /\ Checkpoint2Fields \subseteq DOMAIN DocAt("cp2")
           /\ Grows(DocAt("cp2"), sidecar)
           /\ WarningsOf(sidecar) = Append(WarningsOf(DocAt("cp2")), "chatbot_failed")
           /\ DOMAIN sidecar = DOMAIN DocAt("cp2") \cup {"status", "warnings"}

C5_Witness ==
    /\ kind = "bg"
    /\ pc = "finished"
    /\ InLog("response", "raised")
    /\ HasWrite("cp2")
    /\ Len(WarningsOf(DocAt("cp2"))) = 2

\* C6: in every background run in which response generation fails (the LLM call fails,
\* or the generator raises before it), the final sidecar has nlu, weather and a
\* response object whose error is not null.
C6_FailedResponseHasErrorNote ==
    (kind = "bg" /\ pc = "finished"
       /\ (InLog("response", "raised") \/ InLog("response", "llm_failed")))
        => /\ {"nlu", "weather", "response"} \subseteq DOMAIN sidecar
           /\ sidecar["response"]["error"] # Null

\* the message of the exception process_trace raised in this run
RaisedError ==
    IF InLog("audio", "raised") THEN {"FileNotFoundError"}
    ELSE IF InLog("stt", "raised") THEN {"Azure credentials not set", "Azure STT failed"}
    ELSE {"OSError"}

\* C7: when process_trace raises inside the wrapper, the sidecar the wrapper leaves has
\* exactly trace_id, status = failed, error and processed_at, whatever it held before.
C7_PipelineFailureWritesMinimalRecord ==
    (kind = "bg" /\ pc = "finished" /\ PipelineRaised)
        => /\ fstate = "complete"
           /\ DOMAIN sidecar = {"trace_id", "status", "error", "processed_at"}
           /\ sidecar["trace_id"] = TRACE
           /\ sidecar["status"] = "failed"
           /\ sidecar["error"] \in RaisedError
           /\ sidecar["processed_at"] \in 0..now
           /\ sidecar = written[Len(written)].doc

C7_Witness ==
    /\ kind = "bg"
    /\ pc = "finished"
    /\ PipelineRaised
    /\ HasWrite("cp1")
    /\ before[1] = "complete"

ResponseReturned == InLog("response", "returned") \/ InLog("response", "llm_failed")

\* C8: the terminal status of a background run: pipeline returned and generator
\* returned => done, with a response of exactly text, generated_at, response_language,
\* tts, error merged into the unchanged checkpoint-2 record; pipeline returned and
\* generator raised => agent_done_chatbot_failed; pipeline raised => failed.
C8_TerminalStatus ==
    (kind = "bg" /\ pc = "finished")
        => /\ fstate = "complete"
           /\ PipelineRaised \/ ResponseReturned \/ InLog("response", "raised")
           /\ PipelineRaised <=> ~HasWrite("cp2")
           /\ PipelineRaised => Get(sidecar, "status") = "failed"
           /\ InLog("response", "raised")
                => /\ ~PipelineRaised
                   /\ Get(sidecar, "status") = "agent_done_chatbot_failed"
           /\ ResponseReturned
                => /\ ~PipelineRaised
                   /\ Get(sidecar, "status") = "done"
                   /\ "response" \in DOMAIN sidecar
                   /\ DOMAIN sidecar["response"] =
                        {"text", "generated_at", "response_language", "tts", "error"}
                   /\ DOMAIN sidecar = DOMAIN DocAt("cp2") \cup {"response", "status"}
                   /\ \A k \in DOMAIN DocAt("cp2") : sidecar[k] = DocAt("cp2")[k]

C8_Witness ==
    /\ kind = "bg"
    /\ pc = "finished"
    /\ InLog("response", "llm_failed")
    /\ "warnings" \in DOMAIN sidecar

\* the state of the sidecar state machine a document stands for
SidecarState(d) ==
    IF "status" \in DOMAIN d THEN 3 ELSE IF "nlu" \in DOMAIN d THEN 2 ELSE 1

StageRank(stage) ==
    CASE stage = "audio" -> 0
      [] stage = "stt" -> 1
      [] stage = "translate" -> 2
      [] stage = "textfile" -> 3
      [] stage = "agent" -> 4
      [] stage = "response" -> 5

\* C9: the documents a background run writes go stt_written, agent_attached, terminal
\* in that order, never backwards, and the first is never agent_attached; the stages
\* run in the order STT, translation, Travel Agent, response generation; a status
\* in the sidecar is one of done, agent_done_chatbot_failed, failed.
C9_StateMachineOrder ==
    /\ kind = "bg" =>
        /\ \A i, j \in DOMAIN written :
             i < j => SidecarState(written[i].doc) < SidecarState(written[j].doc)
        /\ written # <<>> => SidecarState(written[1].doc) # 2
        /\ \A i, j \in DOMAIN log :
             (i < j /\ log[i][1] # "write" /\ log[j][1] # "write")
                => StageRank(log[i][1]) < StageRank(log[j][1])
        /\ \A i \in DOMAIN written :
             /\ written[i].site = "cp1" => SidecarState(written[i].doc) = 1
             /\ written[i].site = "cp2" => SidecarState(written[i].doc) = 2
             /\ written[i].site \in {"done", "chatfail", "failed"}
                  => SidecarState(written[i].doc) = 3
    /\ (fstate = "complete" /\ "status" \in DOMAIN sidecar)
         => sidecar["status"] \in {"done", "agent_done_chatbot_failed", "failed"}

C9_Witness ==
    /\ kind = "bg"
    /\ pc = "finished"
    /\ before[1] = "absent"
    /\ Len(written) = 3
    /\ InLog("translate", "returned")
    /\ InLog("response", "returned")

\* C10: when the Travel Agent call raises, process_trace is not aborted: checkpoint 2 is
\* written and the record returned, with agent_failed appended to warnings, nlu and
\* weather set to error placeholders and the checkpoint-1 fields unchanged.
C10_AgentFailureNonFatal ==
    InLog("agent", "raised")
        => /\ pc \notin {"raised", "failed"}
           /\ ~PipelineRaised
           /\ HasWrite("cp1")
           /\ pc = "cp2" => /\ LastWarning(result) = "agent_failed"
                            /\ Grows(DocAt("cp1"), result)
           /\ pc # "cp2"
                => /\ HasWrite("cp2")
                   /\ LastWarning(DocAt("cp2")) = "agent_failed"
                   /\ WarningsOf(DocAt("cp2")) =
                        Append(WarningsOf(DocAt("cp1")), "agent_failed")
                   /\ Checkpoint2Fields \subseteq DOMAIN DocAt("cp2")
                   /\ DOMAIN DocAt("cp2")["nlu"] = {"error"}
                   /\ DOMAIN DocAt("cp2")["weather"] = {"error"}
                   /\ \A k \in TranscriptFields : DocAt("cp2")[k] = DocAt("cp1")[k]
           /\ (kind = "manual" /\ reply.ep = "process")
                => reply.code = 200 /\ reply.body = DocAt("cp2")

C10_Witness ==
    /\ kind = "manual"
    /\ reply.ep = "process"
    /\ InLog("agent", "raised")
    /\ InLog("translate", "raised")

\* the transcript was detected as Japanese (and is not empty)
DetectedJapanese(d) == NeedsTranslation(d)

\* C11: after process_trace, text_en and the text handed to the Travel Agent follow the
\* detected language: Japanese and the translation succeeds, text_en is the translation
\* and the agent receives it; Japanese and the translation fails, text_en is null, a
\* translation_failed warning is recorded and the agent receives the original
\* transcript; not Japanese, text_en is the original transcript and the translator is
\* never called.
C11_TextEnByLanguage ==
    (HasWrite("cp2") /\ text_for_agent # Null)
        => LET d == DocAt("cp2")
           IN  /\ "text_en" \in DOMAIN d
               /\ (DetectedJapanese(d) /\ InLog("translate", "returned"))
                    => /\ d["text_en"] = Translation(d["text"])
                       /\ text_for_agent = d["text_en"]
                       /\ ~InLog("translate", "raised")
               /\ (DetectedJapanese(d) /\ ~InLog("translate", "returned"))
                    => /\ InLog("translate", "raised")
                       /\ d["text_en"] = Null
                       /\ WarningsOf(d) # <<>>
                       /\ WarningsOf(d)[1] = "translation_failed"
                       /\ text_for_agent = d["text"]
               /\ ~DetectedJapanese(d)
                    => /\ d["text_en"] = d["text"]
                       /\ ~InLog("translate", "returned")
                       /\ ~InLog("translate", "raised")
                       /\ text_for_agent = d["text"]

C11_Witness ==
    /\ HasWrite("cp2")
    /\ InLog("translate", "returned")
    /\ text_for_agent = TextTr
    /\ DocAt("cp2")["text"] = TextJa

\* the other two cases of C11 happen as well
C11_WitnessFailed ==
    /\ HasWrite("cp2")
    /\ InLog("translate", "raised")
    /\ text_for_agent = TextJa

\* C12: response generation is always non-fatal to its caller: every invocation of
\* generate_travel_response makes its LLM call and returns a result without raising,
\* whatever the sidecar holds and whether or not an API key is configured; neither the
\* background wrapper nor GET /api/stt/{trace_id}/response ever sees it raise.
C12_ResponseGenerationNeverRaises ==
    /\ ~InLog("response", "raised")
    /\ reply.ep = "response" => reply.code = 200

HasWarning(d, w) == \E i \in DOMAIN WarningsOf(d) : WarningsOf(d)[i] = w

\* C13: every recoverable failure of a background run leaves an entry in the warnings
\* list of the sidecar the run ends with: a translation failure, a Travel Agent failure
\* and a response-generation failure (an LLM call that fails and comes back as an error
\* note included) each append one warning. Stated for the runs in which process_trace
\* itself does not raise.
C13_RecoverableFailureLeavesWarning ==
    (kind = "bg" /\ pc = "finished" /\ ~PipelineRaised)
        => /\ InLog("translate", "raised") => HasWarning(sidecar, "translation_failed")
           /\ InLog("agent", "raised") => HasWarning(sidecar, "agent_failed")
           /\ InLog("response", "raised") => HasWarning(sidecar, "chatbot_failed")
           /\ InLog("response", "llm_failed") => HasWarning(sidecar, "chatbot_failed")

\* the stage a warning comes from
WarningRank(w) ==
    CASE w = "translation_failed" -> 1
      [] w = "agent_failed" -> 2
      [] w = "chatbot_failed" -> 3

\* C14: the warnings list is append-only and ordered: across the successive sidecar
\* writes of one run that ends in done or agent_done_chatbot_failed, each earlier
\* warnings list is a prefix of every later one, and the entries appear in stage order,
\* translation_failed before agent_failed before chatbot_failed.
C14_WarningsAppendOnly ==
    (HasWrite("done") \/ HasWrite("chatfail"))
        => /\ \A i, j \in DOMAIN written :
                i < j => IsPrefix(WarningsOf(written[i].doc), WarningsOf(written[j].doc))
           /\ \A k \in DOMAIN written :
                LET ws == WarningsOf(written[k].doc)
                IN  \A i, j \in DOMAIN ws :
                      i < j => WarningRank(ws[i]) < WarningRank(ws[j])

C14_Witness ==
    /\ HasWrite("chatfail")
    /\ WarningsOf(DocAt("cp1")) = <<"translation_failed">>
    /\ WarningsOf(DocAt("cp2")) = <<"translation_failed", "agent_failed">>
    /\ WarningsOf(DocAt("chatfail")) = <<"translation_failed", "agent_failed", "chatbot_failed">>

\* the fields generate_travel_response returns
ResponsePayloadFields ==
    {"trace_id", "city", "response_text", "merged_context", "generated_at",
     "response_language", "tts", "error"}

\* C15: a call of the Response Generator through GET /api/stt/{trace_id}/response,
\* repeated any number of times, leaves the sidecar file as it was: the stored nlu,
\* weather, transcript, response and status are the same after the call as before, and
\* the call returns a payload of its own.
C15_ResponseGeneratorLeavesSidecar ==
    [][reply'.ep = "response"
         => /\ sidecar' = sidecar
            /\ fstate' = fstate
            /\ reply'.code = 200 /\ fstate # "absent"
                 => /\ DOMAIN reply'.body = ResponsePayloadFields
                    /\ reply'.body["trace_id"] = TRACE]_vars

C15_Witness ==
    /\ reply.ep = "response"
    /\ reply.code = 200
    /\ fstate = "complete"
    /\ Get(sidecar, "status") = "done"
    /\ "response" \in DOMAIN sidecar
    /\ reply.body["error"] # sidecar["response"]["error"]

\* C16: a manual (synchronous) invocation of process_trace stops at checkpoint 2: it
\* makes no LLM call, a completed invocation has written the sidecar exactly twice, and
\* the sidecar it leaves is the record it returns, with nlu and weather and with
\* neither a response nor a status field.
C16_ManualStopsAtCheckpoint2 ==
    kind = "manual"
        => /\ \A i \in DOMAIN log : log[i][1] # "response"
           /\ Len(written) <= 2
           /\ (pc = "finished" /\ ~PipelineRaised)
                => /\ Len(written) = 2
                   /\ written[1].site = "cp1" /\ written[2].site = "cp2"
                   /\ fstate = "complete"
                   /\ sidecar = written[2].doc
                   /\ {"nlu", "weather"} \subseteq DOMAIN sidecar
                   /\ "response" \notin DOMAIN sidecar
                   /\ "status" \notin DOMAIN sidecar
                   /\ reply.ep = "process" => reply.code = 200 /\ reply.body = sidecar

C16_Witness ==
    /\ kind = "manual"
    /\ pc = "finished"
    /\ reply.ep = "process"
    /\ reply.code = 200
    /\ before[1] = "complete"
    /\ Get(before[2], "status") = "done"
    /\ "status" \notin DOMAIN sidecar

Called(c) == \E i \in DOMAIN calls : calls[i] = c

\* C17: travel_weather_agent always runs the Entity Extractor, and invokes the Weather
\* Fetcher if and only if the extracted location is non-empty; when no location is
\* extracted, no geocoding or weather call is made and weather is exactly
\* {error: "no_location_extracted"}.
C17_FetchIffLocation ==
    calls # <<>>
        => /\ calls[1] = "nlu_parser_travel"
           /\ agent_out.raised => Called("fetch_weather")
           /\ ~agent_out.raised
                => LET location == agent_out.value["nlu"]["entities"]["location"]
                       weather == agent_out.value["weather"]
                   IN  /\ Called("fetch_weather") <=> Truthy(location)
                       /\ ~Truthy(location)
                            => /\ ~Called("geocode_candidates")
                               /\ ~Called("geocode")
                               /\ ~Called("weather")
                               /\ weather = [error |-> "no_location_extracted"]
                       /\ Truthy(location)
                            => weather # [error |-> "no_location_extracted"]

C17_Witness ==
    /\ calls = <<"nlu_parser_travel", "dateparser">>
    /\ ~agent_out.raised
    /\ agent_out.value["nlu"]["entities"]["location"] = Null
    /\ agent_out.value["weather"] = [error |-> "no_location_extracted"]
    /\ reply.ep = "text"
    /\ reply.body["status"] = "failed"

\* the other side of C17: a location was extracted and the Weather Fetcher made its calls
C17_WitnessFetched ==
    /\ calls = <<"nlu_parser_travel", "geocode_candidates", "dateparser",
                 "fetch_weather", "geocode", "weather">>
    /\ ~agent_out.raised
    /\ agent_out.value["nlu"]["entities"]["location"] = "Paris"

\* C18: travel_weather_agent never raises: for every query and every outcome (success,
\* failure, malformed payload) of the NER call, the date parser, the geocoding call and
\* the weather call it returns a {nlu, weather} pair, and POST /api/text never answers
\* agent_failed.
C18_AgentNeverRaises ==
    /\ ~agent_out.raised
    /\ reply.ep = "text" => Get(reply.body, "detail") # "agent_failed"

\* the scheduled task is between the start of its first and the end of its last
\* sidecar write
TaskBetweenWrites ==
    /\ kind = "bg"
    /\ pc \notin {"idle", "finished"}
    /\ written # <<>> \/ wphase # "none"

\* the process request is between its checkpoint-1 and its checkpoint-2 write
RequestBetweenWrites == m_pc = "between"

Overlap == TaskBetweenWrites /\ RequestBetweenWrites

\* C19: for a trace_id at most one pipeline execution is writing the sidecar at a time:
\* no sequence of API requests (POST /api/voice followed by POST
\* /api/stt/{trace_id}/process) makes two executions of process_trace for the trace
\* overlap between their first and last sidecar write.
C19_NoOverlappingExecutions == ~Overlap

\* C19 as the code has it: an upload schedules exactly one background execution for its
\* new trace_id, and not before its response, so two scheduled executions of a trace
\* never overlap; an execution that overlaps with it is one a client started with
\* POST /api/stt/{trace_id}/process, which nothing holds back.
C19_OneScheduledExecutionPerTrace ==
    /\ tasks + runs <= 1
    /\ tasks > 0 => up_pc = "responded" /\ pc = "idle"
    /\ pc # "idle" => kind = "bg" /\ runs = 1 /\ tasks = 0
    /\ m_pc # "idle" => up_pc = "responded"

C19_Witness ==
    /\ Overlap
    /\ HasWrite("cp2")
    /\ pc = "bot"
    /\ sidecar = m_result
    /\ sidecar # DocAt("cp2")

\* C20: for a voice upload the whole pipeline of the trace, ingestion (save and
\* transcode) included, runs as one deferred unit after the request has returned: no
\* ingestion, STT, agent or response stage runs before upload_voice has produced its
\* response, and no stage failure is reported in that response.
C20_WholePipelineDeferred ==
    /\ up_pc \notin {"responded", "failed"} => /\ ~raw /\ ~wav
                                               /\ pc = "idle"
    /\ reply.ep = "voice" => reply.code = 200

\* C20 as the code has it: the upload is saved and transcoded inside the request, before
\* the response, and a failure of either is reported in it as HTTP 500 with no task
\* scheduled; the stages after ingestion (STT, translation, agent, response) run as one
\* task that starts only after a successful response {trace_id, status: processing},
\* which reports none of their failures.
C20_IngestionInRequestRestDeferred ==
    /\ up_pc = "none" => ~raw /\ ~wav
    /\ up_pc = "saved" => raw /\ ~wav
    /\ up_pc = "converted" => raw /\ wav
    /\ up_pc = "responded" => wav
    /\ up_pc = "failed" => ~wav
    /\ up_pc # "responded"
         => /\ tasks = 0 /\ runs = 0
            /\ pc = "idle" /\ m_pc = "idle"
            /\ log = <<>> /\ written = <<>>
            /\ fstate = "absent"
    /\ (reply.ep = "voice" /\ reply.code = 200)
         => /\ up_pc = "responded"
            /\ reply.body = [trace_id |-> TRACE, status |-> "processing"]
            /\ tasks = 1 /\ pc = "idle" /\ log = <<>>
    /\ (reply.ep = "voice" /\ reply.code # 200)
         => /\ up_pc = "failed"
            /\ reply.code = 500
            /\ reply.body = [detail |-> "save_or_convert_failed"]

C20_Witness ==
    /\ up_pc = "failed"
    /\ reply.ep = "voice"
    /\ reply.code = 500
    /\ raw

\* the deferred part of C20: the task has run to its end after the response
C20_WitnessDeferred ==
    /\ up_pc = "responded"
    /\ kind = "bg"
    /\ pc = "finished"
    /\ InLog("stt", "raised")
    /\ Get(sidecar, "status") = "failed"

\* C21: when the transcoder fails during ingestion of an upload, ingestion is aborted:
\* no sidecar is written for the trace, no background pipeline is scheduled for it and
\* the raw upload file is kept; when transcoding succeeds the raw file is deleted (a
\* deletion failure is not propagated) and exactly one background pipeline is scheduled.
C21_TranscoderFailureAbortsIngestion ==
    [][/\ (up_pc = "saved" /\ up_pc' = "failed")
            => /\ raw' /\ ~wav'
               /\ fstate' = "absent"
               /\ tasks' = 0
               /\ reply' = [ep |-> "voice", code |-> 500,
                            body |-> [detail |-> "save_or_convert_failed"]]
       /\ up_pc = "failed"
            => /\ up_pc' = "failed"
               /\ raw' = raw
               /\ fstate' = "absent"
               /\ tasks' = 0 /\ runs' = 0 /\ pc' = "idle"
       /\ (up_pc = "saved" /\ up_pc' # "failed")
            => up_pc' \in {"saved", "converted"} /\ (up_pc' = "converted" => wav' /\ raw')
       /\ (up_pc = "converted" /\ up_pc' # "converted")
            => /\ up_pc' = "responded"
               /\ tasks' = 1 /\ runs' = 0
               /\ reply'.ep = "voice" /\ reply'.code = 200
       /\ up_pc' = "responded" => tasks' + runs' = 1]_vars

\* the conversion succeeded, deleting the raw file failed, and the upload was answered
\* and its task scheduled all the same
C21_Witness ==
    /\ up_pc = "responded"
    /\ raw /\ wav
    /\ tasks = 1
    /\ reply.ep = "voice"
    /\ reply.code = 200

\* the raw file deleted, the one task started
C21_WitnessDeleted ==
    /\ up_pc = "responded"
    /\ ~raw
    /\ tasks = 0 /\ runs = 1

\* how many times the latest agent call went through function or service c
TimesCalled(c) == Cardinality({i \in DOMAIN calls : calls[i] = c})

\* C22: the text-only entry point (POST /api/text) never invokes ingestion,
\* speech-to-text or translation and writes no sidecar or other file; it calls the
\* Travel Agent exactly once and the LLM at most once, and it calls the LLM only when a
\* location was extracted (otherwise it returns status failed without an LLM call).
C22_TextEntryPointSkipsAudio ==
    [][reply'.ep = "text"
         => /\ UNCHANGED <<wav, raw, up_pc, tasks, fstate, sidecar, wphase, txt>>
            /\ UNCHANGED <<pc, kind, runs, written, log, result, english_text>>
            /\ TimesCalled("nlu_parser_travel")' = 1
            /\ llm_calls' \in {0, 1}
            /\ ~agent_out'.raised
                 => LET location == agent_out'.value["nlu"]["entities"]["location"]
                    IN  /\ llm_calls' = 1 => Truthy(location)
                        /\ ~Truthy(location)
                             => /\ llm_calls' = 0
                                /\ reply'.code = 200
                                /\ reply'.body["status"] = "failed"
            /\ agent_out'.raised => llm_calls' = 0
            /\ (reply'.code = 200 /\ reply'.body["status"] = "done") => llm_calls' = 1]_vars

C22_Witness ==
    /\ reply.ep = "text"
    /\ reply.code = 200
    /\ reply.body["status"] = "failed"
    /\ llm_calls = 0
    /\ TimesCalled("nlu_parser_travel") = 1
    /\ fstate = "absent" /\ txt = "absent"

\* the request that goes on to the LLM
C22_WitnessAnswered ==
    /\ reply.ep = "text"
    /\ reply.code = 200
    /\ reply.body["status"] = "done"
    /\ llm_calls = 1
    /\ agent_out.value["nlu"]["entities"]["location"] = "Paris"

\* the recognizer returned its no-speech result in this run: the only one with a
\* confidence of 0
NoSpeech ==
    /\ InLog("stt", "returned")
    /\ IF HasWrite("cp1") THEN Get(DocAt("cp1"), "confidence") = "0.0"
       ELSE Get(result, "confidence") = "0.0"

\* C23: a no-speech-detected recognizer result is not an error: the pipeline writes
\* checkpoint 1 with empty text and confidence 0, skips translation, runs the Travel
\* Agent on the empty string and writes checkpoint 2, and a background run continues to
\* response generation (unless the transcript file cannot be written); any other
\* recognizer failure aborts the run before any checkpoint is written.
C23_NoSpeechIsNotAnError ==
    /\ NoSpeech
         => /\ ~InLog("translate", "returned") /\ ~InLog("translate", "raised")
            /\ pc \in {"raised", "failed"} => InLog("textfile", "raised")
            /\ HasWrite("failed") => InLog("textfile", "raised")
            /\ ~HasWrite("cp1") => pc = "cp1" /\ result["text"] = ""
            /\ HasWrite("cp1")
                 => /\ DocAt("cp1")["text"] = ""
                    /\ DocAt("cp1")["text_en"] = ""
                    /\ DocAt("cp1")["detected_language"] = Null
            /\ text_for_agent # Null => text_for_agent = ""
            /\ (InLog("agent", "returned") /\ HasWrite("cp2"))
                 => DocAt("cp2")["nlu"]["dialog_metadata"]["original_query"] = ""
            /\ (pc = "finished" /\ ~InLog("textfile", "raised"))
                 => /\ HasWrite("cp2")
                    /\ InLog("agent", "returned") \/ InLog("agent", "raised")
                    /\ kind = "bg"
                         => /\ \E i \in DOMAIN log : log[i][1] = "response"
                            /\ Get(sidecar, "status") \in {"done", "agent_done_chatbot_failed"}
    /\ InLog("stt", "raised")
         => /\ ~HasWrite("cp1") /\ ~HasWrite("cp2")
            /\ ~InLog("agent", "returned") /\ ~InLog("agent", "raised")
            /\ \A i \in DOMAIN written : written[i].site = "failed"

C23_Witness ==
    /\ NoSpeech
    /\ kind = "bg"
    /\ pc = "finished"
    /\ HasWrite("cp2")
    /\ DocAt("cp2")["text"] = ""
    /\ Get(sidecar, "status") = "done"

\* the other recognizer failures: the run ends with the failed record only
C23_WitnessFatal ==
    /\ InLog("stt", "raised")
    /\ kind = "bg"
    /\ pc = "finished"
    /\ Len(written) = 1

TerminalStatuses == {"done", "agent_done_chatbot_failed", "failed"}

\* C24: once the sidecar of a trace holds a terminal status (done,
\* agent_done_chatbot_failed or failed), no later operation available through the API on
\* that trace (a manual POST /api/stt/{trace_id}/process, the GET polling endpoints)
\* changes or removes that status or the stored response.
C24_TerminalStatusStays ==
    (kind = "manual" /\ before[1] = "complete"
       /\ Get(before[2], "status") \in TerminalStatuses)
        => /\ fstate = "complete"
           /\ Get(sidecar, "status") = Get(before[2], "status")
           /\ "response" \in DOMAIN before[2]
                => /\ "response" \in DOMAIN sidecar
                   /\ sidecar["response"] = before[2]["response"]

\* C25: the agent-result endpoint (GET /api/stt/{trace_id}/agent) reports status done
\* only when the sidecar it read contains the agent's nlu and weather; wherever in a run
\* nlu and weather are not yet attached it reports pending or a status other than done.
C25_AgentDoneOnlyWithNluWeather ==
    (reply.ep = "agent" /\ reply.code = 200 /\ reply.body["status"] = "done")
        => /\ fstate = "complete"
           /\ {"nlu", "weather"} \subseteq DOMAIN sidecar
           /\ {"nlu", "weather"} \subseteq DOMAIN reply.body

TaskFinishedWithStatus ==
    /\ kind = "bg"
    /\ pc = "finished"
    /\ tasks = 0
    /\ fstate = "complete"
    /\ Get(sidecar, "status") \in TerminalStatuses

\* C26: every scheduled background_process_trace run eventually finishes, and when it
\* finishes the sidecar of its trace_id exists and carries a terminal status (done,
\* agent_done_chatbot_failed or failed), given that every external call returns or
\* raises and that sidecar writes succeed; the wrapper itself does not raise.
C26_ScheduledRunFinishes ==
    (tasks > 0 \/ (kind = "bg" /\ pc \notin {"idle", "finished"}))
        ~> TaskFinishedWithStatus

C26_Witness ==
    /\ TaskFinishedWithStatus
    /\ up_pc = "responded"
    /\ InLog("textfile", "raised")
    /\ sidecar["status"] = "failed"
    /\ Len(written) = 2

====
